---- MODULE Spec2Model ----
(***************************************************************************)
(* Model of src/app.py: the neighbours / vehicles / payments record        *)
(* keeper (Flask + SQLAlchemy over SQLite, uploads on disk).               *)
(*                                                                         *)
(* Text is a sequence of one-character strings, so that strip(), lower(),  *)
(* rsplit(), secure_filename(), float() and LIKE are computed, not assumed.*)
(* The falsy values None and "" are both the empty sequence: every test    *)
(* the handlers make on them is a truth test.                              *)
(***************************************************************************)
EXTENDS Integers, Sequences, FiniteSets, TLC

VARIABLES neighbors, vehicles, payments, files, now, everIssued, resp, th

vars == <<neighbors, vehicles, payments, files, now, everIssued, resp, th>>

(***************************************************************************)
(* Bounds of the model.                                                    *)
(***************************************************************************)
MaxNeighbors == 2
MaxVehicles == 2
MaxPayments == 2
MaxTime == 1
\* the rows a table holds while requests run concurrently
ConcNeighbors == 1
ConcVehicles == 1
ConcPayments == 2

None == <<>>

(***************************************************************************)
(* Characters and strings.                                                 *)
(***************************************************************************)
UpperCase == <<"A","B","C","D","E","F","G","H","I","J","K","L","M",
               "N","O","P","Q","R","S","T","U","V","W","X","Y","Z">>
LowerCase == <<"a","b","c","d","e","f","g","h","i","j","k","l","m",
               "n","o","p","q","r","s","t","u","v","w","x","y","z">>
Digits == <<"0","1","2","3","4","5","6","7","8","9">>

\* the characters of the model in code-point order (the order SQLite's
\* default BINARY collation sorts text in)
Ascii == <<" ", "%", "+", "-", ".", "/">> \o Digits \o UpperCase
            \o <<"_">> \o LowerCase

Range(s) == {s[i] : i \in 1..Len(s)}

IndexIn(seq, c) == CHOOSE i \in 1..Len(seq) : seq[i] = c

Ord(c) == IndexIn(Ascii, c)

\* str.lower() on one character
Lower(c) == IF c \in Range(UpperCase) THEN LowerCase[IndexIn(UpperCase, c)] ELSE c

LowerStr(s) == [i \in 1..Len(s) |-> Lower(s[i])]

RECURSIVE LStrip(_, _)
LStrip(s, cs) == IF s # <<>> /\ Head(s) \in cs THEN LStrip(Tail(s), cs) ELSE s

RECURSIVE RStrip(_, _)
RStrip(s, cs) ==
    IF s # <<>> /\ s[Len(s)] \in cs THEN RStrip(SubSeq(s, 1, Len(s) - 1), cs) ELSE s

\* str.strip(chars)
StripChars(s, cs) == RStrip(LStrip(s, cs), cs)

\* str.strip(): surrounding whitespace
Strip(s) == StripChars(s, {" "})

\* lexicographic comparison by code point
RECURSIVE StrLess(_, _)
StrLess(a, b) ==
    IF b = <<>> THEN FALSE
    ELSE IF a = <<>> THEN TRUE
    ELSE IF Head(a) = Head(b) THEN StrLess(Tail(a), Tail(b))
    ELSE Ord(Head(a)) < Ord(Head(b))

(***************************************************************************)
(* File intake.                                                            *)
(***************************************************************************)
ALLOWED_EXTENSIONS == { <<"p","n","g">>, <<"j","p","g">>, <<"j","p","e","g">>,
                        <<"g","i","f">>, <<"p","d","f">> }

\* filename.rsplit(".", 1)[1]: the text after the final "."
Extension(filename) ==
    LET dots == {i \in 1..Len(filename) : filename[i] = "."}
        last == CHOOSE i \in dots : \A j \in dots : j <= i
    IN  SubSeq(filename, last + 1, Len(filename))

allowed_file(filename) ==
    /\ "." \in Range(filename)
    /\ LowerStr(Extension(filename)) \in ALLOWED_EXTENSIONS

\* "_".join(s.split()) on a string without surrounding whitespace: every
\* run of whitespace becomes one "_"
RECURSIVE JoinWords(_)
JoinWords(s) ==
    IF s = <<>> THEN <<>>
    ELSE IF Head(s) = " "
         THEN IF Len(s) > 1 /\ s[2] = " "
              THEN JoinWords(Tail(s))
              ELSE <<"_">> \o JoinWords(Tail(s))
         ELSE <<Head(s)>> \o JoinWords(Tail(s))

\* the characters werkzeug keeps: [A-Za-z0-9_.-]
IsSafeChar(c) == c \in Range(UpperCase) \cup Range(LowerCase) \cup Range(Digits)
                        \cup {"_", ".", "-"}

\* werkzeug.utils.secure_filename: path separators become spaces, words are
\* joined with "_", unsafe characters are dropped, and "." and "_" are
\* stripped from both ends
secure_filename(filename) ==
    LET nosep  == [i \in 1..Len(filename) |->
                      IF filename[i] = "/" THEN " " ELSE filename[i]]
        joined == JoinWords(Strip(nosep))
    IN  StripChars(SelectSeq(joined, IsSafeChar), {".", "_"})

\* datetime.utcnow().strftime("%Y%m%d%H%M%S%f"): the clock reading as text,
\* one symbol per reading
strftime(t) == <<ToString(t)>>

\* f"{timestamp}_{filename}"
StoredName(t, filename) == strftime(t) \o <<"_">> \o secure_filename(filename)

(***************************************************************************)
(* float(amount_raw).                                                      *)
(***************************************************************************)
IsDigit(c) == c \in Range(Digits)

DigitVal(c) == IndexIn(Digits, c) - 1

RECURSIVE NatVal(_)
NatVal(s) == IF s = <<>> THEN 0
             ELSE NatVal(SubSeq(s, 1, Len(s) - 1)) * 10 + DigitVal(s[Len(s)])

\* a decimal literal: digits with at most one ".", and at least one digit
IsDecimal(s) ==
    /\ \E i \in 1..Len(s) : IsDigit(s[i])
    /\ \A i \in 1..Len(s) : IsDigit(s[i]) \/ s[i] = "."
    /\ Cardinality({i \in 1..Len(s) : s[i] = "."}) <= 1

\* the value of a decimal literal in hundredths (two fractional digits kept)
Hundredths(s) ==
    LET dots == {i \in 1..Len(s) : s[i] = "."}
        d    == IF dots = {} THEN Len(s) + 1 ELSE CHOOSE i \in dots : TRUE
        frac == SubSeq(SubSeq(s, d + 1, Len(s)) \o <<"0", "0">>, 1, 2)
    IN  NatVal(SubSeq(s, 1, d - 1)) * 100 + NatVal(frac)

\* Python's float() on text: surrounding whitespace and a sign are
\* accepted, "inf", "infinity" and "nan" (any case) are accepted, anything
\* else that is no decimal literal raises ValueError (ok = FALSE).
\* Exponents and digit-group underscores are outside the model's alphabet.
float(text) ==
    LET t    == Strip(text)
        sgn  == t # <<>> /\ Head(t) \in {"+", "-"}
        neg  == t # <<>> /\ Head(t) = "-"
        body == LowerStr(IF sgn THEN Tail(t) ELSE t)
    IN  IF body \in { <<"i","n","f">>, <<"i","n","f","i","n","i","t","y">> }
        THEN [ok |-> TRUE, kind |-> "inf", hundredths |-> IF neg THEN -1 ELSE 1]
        ELSE IF body = <<"n","a","n">>
        THEN [ok |-> TRUE, kind |-> "nan", hundredths |-> 0]
        ELSE IF IsDecimal(body)
        THEN [ok |-> TRUE, kind |-> "finite",
              hundredths |-> IF neg THEN 0 - Hundredths(body) ELSE Hundredths(body)]
        ELSE [ok |-> FALSE, kind |-> "error", hundredths |-> 0]

(***************************************************************************)
(* Storage layer: three SQLite tables, each a set of rows.                 *)
(***************************************************************************)
Ids(table) == {r.id : r \in table}

\* An INTEGER PRIMARY KEY column without AUTOINCREMENT is SQLite's rowid:
\* an insert takes one more than the largest rowid now in the table.
NextRowid(table) ==
    IF table = {} THEN 1
    ELSE (CHOOSE i \in Ids(table) : \A j \in Ids(table) : j <= i) + 1

Row(table, id) == CHOOSE r \in table : r.id = id

DeleteRows(table, ids) == {r \in table : r.id \notin ids}

\* a table scan: the rows in rowid order
RECURSIVE Scan(_)
Scan(table) ==
    IF table = {} THEN <<>>
    ELSE LET first == CHOOSE r \in table : \A q \in table : r.id <= q.id
         IN  <<first>> \o Scan(table \ {first})

\* SQLite's sorter is a merge sort that keeps rows with equal keys in the
\* order they were scanned; the two orderings the queries ask for
\* the sort with ">=" for ">": rows with equal keys come out newest first
RECURSIVE InsertByCreatedDesc_TiesReversed(_, _)
InsertByCreatedDesc_TiesReversed(sorted, row) ==
    IF sorted = <<>> THEN <<row>>
    ELSE IF row.created_at >= Head(sorted).created_at THEN <<row>> \o sorted
    ELSE <<Head(sorted)>> \o InsertByCreatedDesc_TiesReversed(Tail(sorted), row)

RECURSIVE InsertByCreatedDesc(_, _)
InsertByCreatedDesc(sorted, row) ==
    IF sorted = <<>> THEN <<row>>
    ELSE IF row.created_at > Head(sorted).created_at THEN <<row>> \o sorted
    ELSE <<Head(sorted)>> \o InsertByCreatedDesc(Tail(sorted), row)

RECURSIVE OrderByCreatedDesc(_)
OrderByCreatedDesc(rows) ==
    IF rows = <<>> THEN <<>>
    ELSE InsertByCreatedDesc(OrderByCreatedDesc(SubSeq(rows, 1, Len(rows) - 1)),
                             rows[Len(rows)])

RECURSIVE InsertByLastName(_, _)
InsertByLastName(sorted, row) ==
    IF sorted = <<>> THEN <<row>>
    ELSE IF StrLess(row.last_name, Head(sorted).last_name) THEN <<row>> \o sorted
    ELSE <<Head(sorted)>> \o InsertByLastName(Tail(sorted), row)

RECURSIVE OrderByLastName(_)
OrderByLastName(rows) ==
    IF rows = <<>> THEN <<>>
    ELSE InsertByLastName(OrderByLastName(SubSeq(rows, 1, Len(rows) - 1)),
                          rows[Len(rows)])

IdsOf(rows) == [i \in 1..Len(rows) |-> rows[i].id]

\* text LIKE pattern: "%" is any run of characters, "_" any one character
RECURSIVE Like(_, _)
Like(text, pattern) ==
    IF pattern = <<>> THEN text = <<>>
    ELSE IF Head(pattern) = "%"
         THEN \/ Like(text, Tail(pattern))
              \/ text # <<>> /\ Like(Tail(text), pattern)
    ELSE /\ text # <<>>
         /\ Head(pattern) = "_" \/ Head(pattern) = Head(text)
         /\ Like(Tail(text), Tail(pattern))

\* column.ilike(pattern): lower(column) LIKE lower(pattern)
ilike(text, pattern) == Like(LowerStr(text), LowerStr(pattern))

(***************************************************************************)
(* The responses of the handlers.                                          *)
(***************************************************************************)
NoResponse ==
    [op |-> "none", status |-> "none", neighbor_id |-> 0, id |-> 0,
     form |-> <<>>, out |-> <<>>]

Response(op, status, neighbor_id, id, form, out) ==
    [op |-> op, status |-> status, neighbor_id |-> neighbor_id, id |-> id,
     form |-> form, out |-> out]

Threads == {1, 2}

Idle ==
    [pc |-> "idle", op |-> "none", neighbor_id |-> 0, id |-> 0, form |-> <<>>,
     kids |-> <<{}, {}>>, path |-> None, status |-> "none"]

Init ==
    /\ neighbors = {}
    /\ vehicles = {}
    /\ payments = {}
    /\ files = {}
    /\ now = 0
    /\ everIssued = {}
    /\ resp = NoResponse
    /\ th = [t \in Threads |-> Idle]

\* the wall clock moves on
Tick ==
    /\ now < MaxTime
    /\ now' = now + 1
    /\ UNCHANGED <<neighbors, vehicles, payments, files, everIssued, resp, th>>

(***************************************************************************)
(* Neighbours.                                                             *)
(***************************************************************************)
NewNeighbor(table, form) ==
    [id |-> NextRowid(table), first_name |-> Strip(form.first_name),
     last_name |-> Strip(form.last_name), address |-> Strip(form.address)]

NeighborFormValid(form) ==
    /\ Strip(form.first_name) # <<>>
    /\ Strip(form.last_name) # <<>>
    /\ Strip(form.address) # <<>>

\* POST /admin/users
manage_users(form) ==
    /\ NextRowid(neighbors) <= MaxNeighbors
    /\ IF NeighborFormValid(form)
       THEN /\ neighbors' = neighbors \cup {NewNeighbor(neighbors, form)}
            /\ everIssued' = everIssued \cup {NextRowid(neighbors)}
            /\ resp' = Response("manage_users", "ok", 0, NextRowid(neighbors),
                                form, <<>>)
       ELSE /\ UNCHANGED <<neighbors, everIssued>>
            /\ resp' = Response("manage_users", "ValidationError", 0, 0, form, <<>>)
    /\ UNCHANGED <<vehicles, payments, files, now, th>>

\* relationships declared without the delete cascade: nothing is loaded
ChildIds_NoCascade(table, neighbor_id) == {}

\* the rows session.delete(neighbor) loads through the relationships
\* Neighbor.vehicles and Neighbor.payments, to delete them with the neighbour
ChildIds(table, neighbor_id) == {r.id : r \in {q \in table : q.neighbor_id = neighbor_id}}

\* POST /admin/users/<neighbor_id>/delete
delete_user(neighbor_id) ==
    /\ IF neighbor_id \in Ids(neighbors)
       THEN /\ vehicles' = DeleteRows(vehicles, ChildIds(vehicles, neighbor_id))
            /\ payments' = DeleteRows(payments, ChildIds(payments, neighbor_id))
            /\ neighbors' = DeleteRows(neighbors, {neighbor_id})
            /\ resp' = Response("delete_user", "ok", neighbor_id, 0, <<>>,
                                <<ChildIds(vehicles, neighbor_id),
                                  ChildIds(payments, neighbor_id)>>)
       ELSE /\ UNCHANGED <<neighbors, vehicles, payments>>
            /\ resp' = Response("delete_user", "NotFound", neighbor_id, 0, <<>>, <<>>)
    /\ UNCHANGED <<files, now, everIssued, th>>

(***************************************************************************)
(* Vehicles.                                                               *)
(***************************************************************************)
VehicleFormValid(form) ==
    /\ Strip(form.license_plate) # <<>>
    /\ Strip(form.make) # <<>>
    /\ Strip(form.model) # <<>>
    /\ Strip(form.control_number) # <<>>

NewVehicle(table, neighbor_id, form) ==
    [id |-> NextRowid(table), license_plate |-> Strip(form.license_plate),
     make |-> Strip(form.make), model |-> Strip(form.model),
     control_number |-> Strip(form.control_number), neighbor_id |-> neighbor_id]

\* POST /admin/users/<neighbor_id>/vehicles
manage_vehicles(neighbor_id, form) ==
    /\ NextRowid(vehicles) <= MaxVehicles
    /\ IF neighbor_id \notin Ids(neighbors)
       THEN /\ UNCHANGED vehicles
            /\ resp' = Response("manage_vehicles", "NotFound", neighbor_id, 0,
                                form, <<>>)
       ELSE IF ~VehicleFormValid(form)
       THEN /\ UNCHANGED vehicles
            /\ resp' = Response("manage_vehicles", "ValidationError", neighbor_id,
                                0, form, <<>>)
       ELSE /\ vehicles' = vehicles \cup {NewVehicle(vehicles, neighbor_id, form)}
            /\ resp' = Response("manage_vehicles", "ok", neighbor_id,
                                NextRowid(vehicles), form, <<>>)
    /\ UNCHANGED <<neighbors, payments, files, now, everIssued, th>>

\* the filter without its neighbor_id term
VehicleFilter_AnyOwner(table, neighbor_id, vehicle_id) ==
    {v \in table : v.id = vehicle_id}

\* Vehicle.query.filter_by(id=vehicle_id, neighbor_id=neighbor_id)
VehicleFilter(table, neighbor_id, vehicle_id) ==
    {v \in table : v.id = vehicle_id /\ v.neighbor_id = neighbor_id}

\* POST /admin/users/<neighbor_id>/vehicles/<vehicle_id>/delete
delete_vehicle(neighbor_id, vehicle_id) ==
    /\ IF /\ neighbor_id \in Ids(neighbors)
          /\ VehicleFilter(vehicles, neighbor_id, vehicle_id) # {}
       THEN /\ vehicles' = DeleteRows(vehicles,
                               Ids(VehicleFilter(vehicles, neighbor_id, vehicle_id)))
            /\ resp' = Response("delete_vehicle", "ok", neighbor_id, vehicle_id,
                                <<>>, <<>>)
       ELSE /\ UNCHANGED vehicles
            /\ resp' = Response("delete_vehicle", "NotFound", neighbor_id,
                                vehicle_id, <<>>, <<>>)
    /\ UNCHANGED <<neighbors, payments, files, now, everIssued, th>>

(***************************************************************************)
(* Payments.                                                               *)
(***************************************************************************)
\* "not method or amount is None" is the rejection
PaymentFormValid(form) ==
    /\ Strip(form.method) # <<>>
    /\ float(Strip(form.amount)).ok

\* "screenshot and screenshot.filename"
HasUpload(form) == form.screenshot # <<>>

NewPayment(table, neighbor_id, form, screenshot_path, t) ==
    [id |-> NextRowid(table), neighbor_id |-> neighbor_id,
     method |-> Strip(form.method), amount |-> float(Strip(form.amount)),
     deposit_account |-> Strip(form.deposit_account),
     screenshot_path |-> screenshot_path, created_at |-> t]

\* SQLite binds a NaN as NULL, and payments.amount is NOT NULL: the commit
\* raises IntegrityError
CommitRejected(row) == row.amount.kind = "nan"

\* POST /admin/users/<neighbor_id>/payments
manage_payments_post(neighbor_id, form) ==
    /\ NextRowid(payments) <= MaxPayments
    /\ IF neighbor_id \notin Ids(neighbors)
       THEN /\ UNCHANGED <<payments, files>>
            /\ resp' = Response("manage_payments", "NotFound", neighbor_id, 0,
                                form, None)
       ELSE IF ~PaymentFormValid(form)
       THEN /\ UNCHANGED <<payments, files>>
            /\ resp' = Response("manage_payments", "ValidationError", neighbor_id,
                                0, form, None)
       ELSE IF HasUpload(form) /\ ~allowed_file(form.screenshot)
       THEN /\ UNCHANGED <<payments, files>>
            /\ resp' = Response("manage_payments", "UnsupportedFileType",
                                neighbor_id, 0, form, None)
       ELSE LET screenshot_path == IF HasUpload(form)
                                   THEN StoredName(now, form.screenshot)
                                   ELSE None
                payment == NewPayment(payments, neighbor_id, form,
                                      screenshot_path, now)
            IN  /\ files' = IF HasUpload(form) THEN files \cup {screenshot_path}
                            ELSE files
                /\ IF CommitRejected(payment)
                   THEN /\ UNCHANGED payments
                        /\ resp' = Response("manage_payments", "StorageFailure",
                                            neighbor_id, 0, form, screenshot_path)
                   ELSE /\ payments' = payments \cup {payment}
                        /\ resp' = Response("manage_payments", "ok", neighbor_id,
                                            payment.id, form, screenshot_path)
    /\ UNCHANGED <<neighbors, vehicles, now, everIssued, th>>

\* Payment.query.filter_by(neighbor_id=neighbor_id)
\*        .order_by(Payment.created_at.desc()).all()
listPayments(table, neighbor_id) ==
    LET Mine(r) == r.neighbor_id = neighbor_id
    IN  OrderByCreatedDesc(SelectSeq(Scan(table), Mine))

\* GET /admin/users/<neighbor_id>/payments
manage_payments_get(neighbor_id) ==
    /\ IF neighbor_id \notin Ids(neighbors)
       THEN resp' = Response("list_payments", "NotFound", neighbor_id, 0, <<>>, <<>>)
       ELSE resp' = Response("list_payments", "ok", neighbor_id, 0, <<>>,
                             IdsOf(listPayments(payments, neighbor_id)))
    /\ UNCHANGED <<neighbors, vehicles, payments, files, now, everIssued, th>>

\* Payment.query.filter_by(id=payment_id, neighbor_id=neighbor_id)
PaymentFilter(table, neighbor_id, payment_id) ==
    {p \in table : p.id = payment_id /\ p.neighbor_id = neighbor_id}

\* os.remove() of the payment's file, FileNotFoundError swallowed
RemoveFile(store, payment) ==
    IF payment.screenshot_path # None THEN store \ {payment.screenshot_path}
    ELSE store

\* POST /admin/users/<neighbor_id>/payments/<payment_id>/delete
delete_payment(neighbor_id, payment_id) ==
    /\ IF PaymentFilter(payments, neighbor_id, payment_id) # {}
       THEN /\ files' = RemoveFile(files, Row(payments, payment_id))
            /\ payments' = DeleteRows(payments, {payment_id})
            /\ resp' = Response("delete_payment", "ok", neighbor_id, payment_id,
                                <<>>, <<>>)
       ELSE /\ UNCHANGED <<payments, files>>
            /\ resp' = Response("delete_payment", "NotFound", neighbor_id,
                                payment_id, <<>>, <<>>)
    /\ UNCHANGED <<neighbors, vehicles, now, everIssued, th>>

(***************************************************************************)
(* Public portal.                                                          *)
(***************************************************************************)
searchNeighbors(table, query) ==
    LET q          == Strip(query)
        like_query == <<"%">> \o q \o <<"%">>
        Hit(n)     == \/ ilike(n.first_name, like_query)
                      \/ ilike(n.last_name, like_query)
                      \/ ilike(n.address, like_query)
    IN  IF q = <<>> THEN <<>>
        ELSE OrderByLastName(SelectSeq(Scan(table), Hit))

\* POST /portal
portal_search(query) ==
    /\ resp' = Response("portal_search", "ok", 0, 0, query,
                        IdsOf(searchNeighbors(neighbors, query)))
    /\ UNCHANGED <<neighbors, vehicles, payments, files, now, everIssued, th>>

(***************************************************************************)
(* The requests the model submits.                                         *)
(***************************************************************************)
NeighborIds == 1..MaxNeighbors
VehicleIds == 1..MaxVehicles
PaymentIds == 1..MaxPayments

Smith ==
    [first_name |-> <<" ","A","l">>, last_name |-> <<"S","m","i","t","h">>,
     address |-> <<"1"," ","a">>]
Adams ==
    [first_name |-> <<"b","o">>, last_name |-> <<"a","d","a","m","s">>,
     address |-> <<"b","_","2">>]
Blank ==
    [first_name |-> <<" ">>, last_name |-> <<"S","m","i","t","h">>,
     address |-> <<"1"," ","a">>]

Car ==
    [license_plate |-> <<"A","B","1">>, make |-> <<"v","w">>,
     model |-> <<"g","t">>, control_number |-> <<"7">>]
NoMake == [Car EXCEPT !.make = <<" ">>]

Cash == <<"c","a","s","h">>

PaymentForm(method, amount, screenshot) ==
    [method |-> method, amount |-> amount, deposit_account |-> <<>>,
     screenshot |-> screenshot]

Plain == PaymentForm(Cash, <<"1","2",".","5","0">>, <<>>)

Amounts == { <<"1","2",".","5","0">>, <<" ","-","3">>, <<"i","n","f">>,
             <<"N","a","N">>, <<"a","b","c">>, <<>> }

FileNames == { <<"e",".","p","n","g">>, <<"e",".","P","N","G">>,
               <<"e",".","e","x","e">>, <<"e">>, <<".","p","n","g">> }

Queries == { <<"s","m","i","t","h">>, <<" ">>, <<"_">>, <<"%">>, <<"A"," ">>,
             <<"B">> }

(***************************************************************************)
(* One request at a time: every handler that writes runs to completion.    *)
(***************************************************************************)
Next ==
    \/ \E form \in {Smith, Blank} : manage_users(form)
    \/ \E n \in NeighborIds : delete_user(n)
    \/ \E n \in NeighborIds, form \in {Car, NoMake} : manage_vehicles(n, form)
    \/ \E n \in NeighborIds, v \in VehicleIds : delete_vehicle(n, v)
    \/ \E n \in NeighborIds : manage_payments_post(n, Plain)
    \/ \E n \in NeighborIds, p \in PaymentIds : delete_payment(n, p)

Spec == Init /\ [][Next]_vars

(***************************************************************************)
(* The payment listing, as payments come and go and the clock moves.       *)
(***************************************************************************)
ListNext ==
    \/ Tick
    \/ manage_users(Smith)
    \/ \E n \in NeighborIds : manage_payments_post(n, Plain)
    \/ \E n \in NeighborIds, p \in PaymentIds : delete_payment(n, p)
    \/ \E n \in NeighborIds : manage_payments_get(n)

ListSpec == Init /\ [][ListNext]_vars

(***************************************************************************)
(* Payment creation over the forms that exercise validation and intake.    *)
(***************************************************************************)
Png == <<"e",".","p","n","g">>

PaymentForms ==
    {PaymentForm(Cash, a, <<>>) : a \in Amounts}
        \cup {PaymentForm(Cash, <<"1","2",".","5","0">>, f) : f \in FileNames}
        \cup {PaymentForm(<<" ">>, <<"1","2",".","5","0">>, Png),
              PaymentForm(Cash, <<"a","b","c">>, Png),
              PaymentForm(Cash, <<"N","a","N">>, Png)}

PayNext ==
    \/ Tick
    \/ manage_users(Smith)
    \/ \E n \in NeighborIds, form \in PaymentForms : manage_payments_post(n, form)
    \/ \E n \in NeighborIds, p \in PaymentIds : delete_payment(n, p)

PaySpec == Init /\ [][PayNext]_vars

(***************************************************************************)
(* The portal search over a register of neighbours.                        *)
(***************************************************************************)
SearchNext ==
    \/ \E form \in {Smith, Adams, Blank} : manage_users(form)
    \/ \E n \in NeighborIds : delete_user(n)
    \/ \E query \in Queries : portal_search(query)

SearchSpec == Init /\ [][SearchNext]_vars

(***************************************************************************)
(* Concurrent requests.  The development server handles each request in    *)
(* its own thread with its own session; a thread's step is one statement   *)
(* sent to SQLite or one call on the upload directory.  A SELECT opens no  *)
(* transaction (the driver begins one at the first INSERT or DELETE), so   *)
(* what a handler has read may change before its commit; the commit's      *)
(* statements are one transaction.  Foreign keys are declared but SQLite   *)
(* does not enforce them unless PRAGMA foreign_keys is set, and it is not. *)
(***************************************************************************)
At(t, pc) == th[t].pc = pc

Goto(t, pc) == th' = [th EXCEPT ![t].pc = pc]

Finish(t) == th' = [th EXCEPT ![t] = Idle]

\* Neighbor.query.get_or_404(neighbor_id) at the head of a handler
get_or_404(t, op, neighbor_id, id, form, pc) ==
    /\ neighbor_id \in Ids(neighbors)
    /\ th' = [th EXCEPT ![t] = [Idle EXCEPT !.pc = pc, !.op = op,
                                  !.neighbor_id = neighbor_id, !.id = id,
                                  !.form = form]]
    /\ UNCHANGED <<neighbors, vehicles, payments, files, now, everIssued, resp>>

\* manage_users, lines 113-126, for a form that passes validation: the one
\* statement of the handler is its INSERT
manage_users_commit(form) ==
    /\ NeighborFormValid(form)
    /\ NextRowid(neighbors) <= ConcNeighbors
    /\ neighbors' = neighbors \cup {NewNeighbor(neighbors, form)}
    /\ everIssued' = everIssued \cup {NextRowid(neighbors)}
    /\ UNCHANGED <<vehicles, payments, files, now, resp, th>>

\* delete_user, line 135
delete_user_get(t, neighbor_id) ==
    /\ At(t, "idle")
    /\ get_or_404(t, "delete_user", neighbor_id, 0, <<>>, "delete_user_delete")

\* delete_user, line 136: session.delete() loads the children to cascade to
delete_user_delete(t) ==
    /\ At(t, "delete_user_delete")
    /\ th' = [th EXCEPT ![t].pc = "delete_user_commit",
                        ![t].kids = <<ChildIds(vehicles, th[t].neighbor_id),
                                      ChildIds(payments, th[t].neighbor_id)>>]
    /\ UNCHANGED <<neighbors, vehicles, payments, files, now, everIssued, resp>>

\* delete_user, line 137: the loaded children and the neighbour are deleted
\* by primary key
delete_user_commit(t) ==
    /\ At(t, "delete_user_commit")
    /\ vehicles' = DeleteRows(vehicles, th[t].kids[1])
    /\ payments' = DeleteRows(payments, th[t].kids[2])
    /\ neighbors' = DeleteRows(neighbors, {th[t].neighbor_id})
    /\ Finish(t)
    /\ UNCHANGED <<files, now, everIssued, resp>>

\* manage_vehicles, line 144
manage_vehicles_get(t, neighbor_id, form) ==
    /\ At(t, "idle")
    /\ VehicleFormValid(form)
    /\ get_or_404(t, "manage_vehicles", neighbor_id, 0, form,
                  "manage_vehicles_commit")

\* manage_vehicles, lines 154-162: the row carries the id of the neighbour
\* object read at line 144
manage_vehicles_commit(t) ==
    /\ At(t, "manage_vehicles_commit")
    /\ NextRowid(vehicles) <= ConcVehicles
    /\ vehicles' = vehicles \cup {NewVehicle(vehicles, th[t].neighbor_id, th[t].form)}
    /\ Finish(t)
    /\ UNCHANGED <<neighbors, payments, files, now, everIssued, resp>>

\* delete_vehicle, line 170
delete_vehicle_get(t, neighbor_id, vehicle_id) ==
    /\ At(t, "idle")
    /\ get_or_404(t, "delete_vehicle", neighbor_id, vehicle_id, <<>>,
                  "delete_vehicle_first")

\* delete_vehicle, line 171: first_or_404 ends the request when no row matches
delete_vehicle_first(t) ==
    /\ At(t, "delete_vehicle_first")
    /\ IF VehicleFilter(vehicles, th[t].neighbor_id, th[t].id) # {}
       THEN Goto(t, "delete_vehicle_commit")
       ELSE Finish(t)
    /\ UNCHANGED <<neighbors, vehicles, payments, files, now, everIssued, resp>>

\* delete_vehicle, lines 172-173
delete_vehicle_commit(t) ==
    /\ At(t, "delete_vehicle_commit")
    /\ vehicles' = DeleteRows(vehicles, {th[t].id})
    /\ Finish(t)
    /\ UNCHANGED <<neighbors, payments, files, now, everIssued, resp>>

\* manage_payments, line 180, for a form that passes validation
manage_payments_get_or_404(t, neighbor_id, form) ==
    /\ At(t, "idle")
    /\ PaymentFormValid(form)
    /\ get_or_404(t, "manage_payments", neighbor_id, 0, form, "manage_payments_save")

\* manage_payments, lines 195-209: the file is named after the clock and saved
manage_payments_save(t) ==
    /\ At(t, "manage_payments_save")
    /\ IF ~HasUpload(th[t].form)
       THEN /\ Goto(t, "manage_payments_commit")
            /\ UNCHANGED files
       ELSE IF allowed_file(th[t].form.screenshot)
       THEN /\ files' = files \cup {StoredName(now, th[t].form.screenshot)}
            /\ th' = [th EXCEPT ![t].pc = "manage_payments_commit",
                                ![t].path = StoredName(now, th[t].form.screenshot)]
       ELSE /\ Finish(t)
            /\ UNCHANGED files
    /\ UNCHANGED <<neighbors, vehicles, payments, now, everIssued, resp>>

\* manage_payments, lines 211-219: created_at is the clock at the flush
manage_payments_commit(t) ==
    /\ At(t, "manage_payments_commit")
    /\ NextRowid(payments) <= ConcPayments
    /\ ~CommitRejected(NewPayment(payments, th[t].neighbor_id, th[t].form,
                                  th[t].path, now))
    /\ payments' = payments \cup {NewPayment(payments, th[t].neighbor_id,
                                             th[t].form, th[t].path, now)}
    /\ Finish(t)
    /\ UNCHANGED <<neighbors, vehicles, files, now, everIssued, resp>>

\* delete_payment, lines 234-236
delete_payment_first(t, neighbor_id, payment_id) ==
    /\ At(t, "idle")
    /\ PaymentFilter(payments, neighbor_id, payment_id) # {}
    /\ th' = [th EXCEPT ![t] =
                 [Idle EXCEPT !.pc = "delete_payment_remove",
                              !.op = "delete_payment",
                              !.neighbor_id = neighbor_id, !.id = payment_id,
                              !.path = Row(payments, payment_id).screenshot_path]]
    /\ UNCHANGED <<neighbors, vehicles, payments, files, now, everIssued, resp>>

\* delete_payment, lines 237-241
delete_payment_remove(t) ==
    /\ At(t, "delete_payment_remove")
    /\ files' = IF th[t].path # None THEN files \ {th[t].path} ELSE files
    /\ Goto(t, "delete_payment_commit")
    /\ UNCHANGED <<neighbors, vehicles, payments, now, everIssued, resp>>

\* delete_payment, lines 242-243
delete_payment_commit(t) ==
    /\ At(t, "delete_payment_commit")
    /\ payments' = DeleteRows(payments, {th[t].id})
    /\ Finish(t)
    /\ UNCHANGED <<neighbors, vehicles, files, now, everIssued, resp>>

\* a commit that raises (the database is locked, the disk is full, the
\* process dies): the transaction is rolled back and the request ends
commit_fails(t) ==
    /\ th[t].pc \in {"manage_payments_commit", "delete_payment_commit"}
    /\ Finish(t)
    /\ UNCHANGED <<neighbors, vehicles, payments, files, now, everIssued, resp>>

Upload == PaymentForm(Cash, <<"1","2",".","5","0">>, Png)

ConcNext ==
    \/ Tick
    \/ manage_users_commit(Smith)
    \/ \E t \in Threads, n \in NeighborIds : delete_user_get(t, n)
    \/ \E t \in Threads : delete_user_delete(t)
    \/ \E t \in Threads : delete_user_commit(t)
    \/ \E t \in Threads, n \in NeighborIds : manage_vehicles_get(t, n, Car)
    \/ \E t \in Threads : manage_vehicles_commit(t)
    \/ \E t \in Threads, n \in NeighborIds, v \in VehicleIds :
          delete_vehicle_get(t, n, v)
    \/ \E t \in Threads : delete_vehicle_first(t)
    \/ \E t \in Threads : delete_vehicle_commit(t)
    \/ \E t \in Threads, n \in NeighborIds :
          manage_payments_get_or_404(t, n, Upload)
    \/ \E t \in Threads : manage_payments_save(t)
    \/ \E t \in Threads : manage_payments_commit(t)
    \/ \E t \in Threads, n \in NeighborIds, p \in PaymentIds :
          delete_payment_first(t, n, p)
    \/ \E t \in Threads : delete_payment_remove(t)
    \/ \E t \in Threads : delete_payment_commit(t)
    \/ \E t \in Threads : commit_fails(t)

ConcSpec == Init /\ [][ConcNext]_vars

(***************************************************************************)
(* Properties.  A step that leaves the clock alone is a step of a handler. *)
(***************************************************************************)

\* C1: after delete_user(id) succeeds no vehicle row and no payment row
\* carries that neighbour id, the payment listing for it is empty, and a
\* delete_user(id) issued directly afterwards answers NotFound.
C1_DeleteNeighborCascades ==
    [][ /\ (resp'.op = "delete_user" /\ resp'.status = "ok") =>
              /\ \A v \in vehicles' : v.neighbor_id # resp'.neighbor_id
              /\ \A p \in payments' : p.neighbor_id # resp'.neighbor_id
              /\ listPayments(payments', resp'.neighbor_id) = <<>>
        /\ ( /\ resp.op = "delete_user" /\ resp.status = "ok"
             /\ resp'.op = "delete_user" /\ resp'.neighbor_id = resp.neighbor_id
             /\ now' = now ) => resp'.status = "NotFound" ]_vars

\* a neighbour that owned a vehicle and a payment has just been deleted
C1_Witness ==
    /\ resp.op = "delete_user" /\ resp.status = "ok"
    /\ resp.out[1] # {} /\ resp.out[2] # {}

\* C6: delete_vehicle(a, v), with neighbour a present and vehicle v owned by
\* another neighbour, answers NotFound and leaves the vehicles as they
\* were; a delete_vehicle step removes nothing but the vehicle named, and
\* only for its owner.
C6_DeleteVehicleOwnerScoped ==
    [][ (resp'.op = "delete_vehicle" /\ now' = now) =>
           /\ ( /\ resp'.neighbor_id \in Ids(neighbors)
                /\ \E v \in vehicles : /\ v.id = resp'.id
                                       /\ v.neighbor_id # resp'.neighbor_id )
                 => (resp'.status = "NotFound" /\ vehicles' = vehicles)
           /\ \A v \in vehicles \ vehicles' :
                 v.id = resp'.id /\ v.neighbor_id = resp'.neighbor_id ]_vars

\* a delete through the wrong neighbour was refused and the vehicle is there
C6_Witness ==
    /\ resp.op = "delete_vehicle" /\ resp.status = "NotFound"
    /\ resp.neighbor_id \in Ids(neighbors)
    /\ \E v \in vehicles : v.id = resp.id /\ v.neighbor_id # resp.neighbor_id

\* C7: the id given to a new neighbour differs from every id given to a
\* neighbour before, deleted ones included.
C7_NeighborIdsNeverReused ==
    [][ (resp'.op = "manage_users" /\ resp'.status = "ok" /\ neighbors' # neighbors)
           => resp'.id \notin everIssued ]_vars

\* C8: a listing holds exactly the neighbour's payments, newest first, and
\* payments created at the same time in the order they were inserted (the
\* rowid order: a new row takes a rowid above every row present).
C8_ListingNewestFirstStable ==
    (resp.op = "list_payments" /\ resp.status = "ok") =>
        LET out == resp.out
        IN  /\ Range(out) = {p.id : p \in {q \in payments :
                                             q.neighbor_id = resp.neighbor_id}}
            /\ Len(out) = Cardinality(Range(out))
            /\ \A i, j \in 1..Len(out) : i < j =>
                  LET a == Row(payments, out[i])
                      b == Row(payments, out[j])
                  IN  \/ a.created_at > b.created_at
                      \/ a.created_at = b.created_at /\ a.id < b.id

\* a listing of payments made at the same clock reading
C8_Witness ==
    /\ resp.op = "list_payments" /\ resp.status = "ok"
    /\ \E i, j \in 1..Len(resp.out) :
          /\ i < j
          /\ Row(payments, resp.out[i]).created_at
                = Row(payments, resp.out[j]).created_at

\* C2: every vehicle row and every payment row refers to exactly one
\* neighbour row that exists.
C2_NoOrphanedChild ==
    \A r \in vehicles \cup payments :
        Cardinality({n \in neighbors : n.id = r.neighbor_id}) = 1

\* C3: every payment row with a screenshot reference has its file in the
\* upload store.
C3_ReferencedFileExists ==
    \A p \in payments : p.screenshot_path # None => p.screenshot_path \in files

\* the names given to the uploads accepted so far that are still referred
\* to: by a payment row, or by a request about to insert its row
PendingUploads ==
    {t \in Threads : th[t].pc = "manage_payments_commit" /\ th[t].path # None}

\* C10: two accepted uploads never have the same stored name: no two
\* payment rows share a reference, and no request holds the name of
\* another request's upload or of a stored payment's.
C10_StoredNamesDistinct ==
    /\ \A p, q \in payments :
          (p # q /\ p.screenshot_path # None) => p.screenshot_path # q.screenshot_path
    /\ \A t, u \in PendingUploads : t # u => th[t].path # th[u].path
    /\ \A t \in PendingUploads, p \in payments : th[t].path # p.screenshot_path

\* the file name ends in "." and an extension of the allow-set, any case
HasAllowedExtension(filename) ==
    \E i \in 1..Len(filename) :
        /\ filename[i] = "."
        /\ \A j \in (i + 1)..Len(filename) : filename[j] # "."
        /\ LowerStr(SubSeq(filename, i + 1, Len(filename))) \in ALLOWED_EXTENSIONS

\* the text denotes a finite number
IsFiniteNumberText(text) == float(text).kind = "finite"

\* a step of manage_payments for a neighbour that exists
PaymentStep ==
    /\ now' = now
    /\ resp'.op = "manage_payments"
    /\ resp'.neighbor_id \in Ids(neighbors)

\* C4: a payment with valid fields and an attached file is refused with
\* UnsupportedFileType, nothing stored, when the file name has no allowed
\* extension; otherwise it succeeds and the row's reference is the generated
\* name, which is not the original name and ends in the original extension.
C4_UploadByExtension ==
    [][ ( /\ PaymentStep
          /\ Strip(resp'.form.method) # <<>>
          /\ IsFiniteNumberText(resp'.form.amount)
          /\ resp'.form.screenshot # <<>> ) =>
            IF ~HasAllowedExtension(resp'.form.screenshot)
            THEN /\ resp'.status = "UnsupportedFileType"
                 /\ payments' = payments
                 /\ files' = files
            ELSE /\ resp'.status = "ok"
                 /\ \E p \in payments' \ payments :
                       /\ p.id = resp'.id
                       /\ p.screenshot_path = resp'.out
                 /\ resp'.out \in files'
                 /\ resp'.out # resp'.form.screenshot
                 /\ "." \in Range(resp'.out)
                 /\ Extension(resp'.out) = Extension(resp'.form.screenshot) ]_vars

\* C5: a payment is refused with ValidationError, nothing stored, when the
\* method trims to empty or the amount text denotes no finite number, and
\* passes validation for every finite number text.
C5_AmountMustBeFinite ==
    [][ PaymentStep =>
          IF \/ Strip(resp'.form.method) = <<>>
             \/ ~IsFiniteNumberText(resp'.form.amount)
          THEN /\ resp'.status = "ValidationError"
               /\ payments' = payments
               /\ files' = files
          ELSE resp'.status # "ValidationError" ]_vars

\* the text occurs in the field, letter case ignored
Contains(text, q) ==
    \E i \in 1..(Len(text) - Len(q) + 1) :
        LowerStr(SubSeq(text, i, i + Len(q) - 1)) = LowerStr(q)

\* C9: a search returns exactly the neighbours with the trimmed query text
\* inside the first name, the last name or the address, in last name order,
\* and nothing when the query trims to empty.
C9_SearchIsLiteralSubstring ==
    resp.op = "portal_search" =>
        LET q    == Strip(resp.form)
            out  == resp.out
            hits == {n \in neighbors : \/ Contains(n.first_name, q)
                                       \/ Contains(n.last_name, q)
                                       \/ Contains(n.address, q)}
        IN  IF q = <<>> THEN out = <<>>
            ELSE /\ Range(out) = Ids(hits)
                 /\ Len(out) = Cardinality(hits)
                 /\ \A i, j \in 1..Len(out) : i < j =>
                       ~StrLess(Row(neighbors, out[j]).last_name,
                                Row(neighbors, out[i]).last_name)

====
